---- MODULE Spec2Model ----
(***************************************************************************)
(* Model of the authentication context of drop-FE (AuthProvider, the axios *)
(* request interceptor) as a state machine.  Every async function is cut   *)
(* at its awaits: one action runs the synchronous prefix up to the network *)
(* request, one action runs the continuation when the response arrives.    *)
(* The remote API is the environment: every request may succeed with the   *)
(* documented fields or fail with or without a message.                    *)
(***************************************************************************)
EXTENDS Integers, FiniteSets, Sequences, Bags, TLC

\* ------------------------------------------------------------------ bounds
MaxProducts == 2   \* products the list may hold
MaxFlight == 1     \* product operations that may be in flight together
MaxPick == 3       \* files one selection of the file input may hold
MaxTime == 1       \* the clock (Date.now()/1000) runs over 0..MaxTime
MaxIssued == 2     \* token pairs the server issues in one run
MaxCalls == 2      \* calls that may be in flight together

\* ------------------------------------------------------------------ values
\* Every JavaScript value the model handles is a record of one shape, so that
\* any two of them can be compared: t is the kind, n/e/r its content.
Val(t, n, e, r) == [t |-> t, n |-> n, e |-> e, r |-> r]

Null == Val("null", 0, 0, "")              \* null: getItem of an absent key
Undefined == Val("undefined", 0, 0, "")    \* a field the object does not have
Str(s) == Val("str", 0, 0, s)              \* a string that is neither JWT nor JSON
Jwt(n, e) == Val("jwt", n, e, "")          \* a well-formed JWT string, payload {userId n, exp e}
Rt(n) == Val("rt", n, 0, "")               \* the refresh token issued with Jwt(n, _)
UserObj(n, role) == Val("user", n, 0, role)   \* a User object
Json(n, role) == Val("json", n, 0, role)      \* the JSON text of UserObj(n, role)

\* JavaScript truthiness, for `if (x)` and `a && b`.
Truthy(v) == v # Null /\ v # Undefined /\ v # Str("")

\* Mutant: jwtDecode accepts any string.
DecodeThrows_Never(tok) == FALSE
\* jwtDecode: the payload of a well-formed token; throws on anything else.
DecodeThrows(tok) == tok.t # "jwt"
jwtDecode(tok) == [userId |-> tok.n, exp |-> tok.e]

\* Mutant: a token whose exp equals the current time counts as expired.
Expired_OrEqual(tok, time) == tok.e <= time
\* decoded.exp < currentTime
Expired(tok, time) == jwtDecode(tok).exp < time

\* JSON.stringify(user); of undefined it is undefined.
JSONstringify(u) == IF u.t = "user" THEN Json(u.n, u.r) ELSE Undefined

\* JSON.parse(text): throws unless the text is JSON.
ParseThrows(s) == s.t # "json"
JSONparse(s) == UserObj(s.n, s.r)

\* localStorage.setItem(key, value) stores String(value).
ToStored(v) == IF v = Undefined THEN Str("undefined")
               ELSE IF v = Null THEN Str("null")
               ELSE v

Keys == {"accessToken", "refreshToken", "user", "token"}
CredKeys == {"accessToken", "refreshToken", "user"}

setItem(s, k, v) == [s EXCEPT ![k] = ToStored(v)]
removeItem(s, k) == [s EXCEPT ![k] = Null]

\* Mutant: the failure and logout paths remove the key `token` too.
ClearCreds_All(s) == [k \in Keys |-> Null]
\* The three removeItem calls of every failure and logout path.
ClearCreds(s) == removeItem(removeItem(removeItem(s, "accessToken"), "refreshToken"), "user")

\* `Bearer ${token}`
Bearer(v) == Val("bearer", v.n, v.e, IF v.t = "str" THEN v.r ELSE v.t)

\* ------------------------------------------------------------------- state
VARIABLES
  storage,     \* localStorage: key -> stored string, Null when the key is absent
  user,        \* useState<User | null>: Session.user
  isLoading,   \* useState<boolean>
  location,    \* window.location.href: "/" until a redirect sets "/login"
  now,         \* Date.now() / 1000
  issued,      \* token pairs the server has issued
  mounted,     \* the mount effect (checkAuth) has run
  calls,       \* the bag of calls suspended at their await
  last,        \* the call that settled in the step just taken, NoCall if none did
  products,    \* ProductProvider: useState<Product[]>
  loading,     \* ProductProvider: useState<boolean>
  error,       \* ProductProvider: useState<string | null>
  images       \* AddProduct: useState<Array<{file, preview}>>

vars == <<storage, user, isLoading, location, now, issued, mounted, calls, last,
          products, loading, error, images>>

NoData == [user |-> Undefined, admin |-> Undefined,
           accessToken |-> Undefined, refreshToken |-> Undefined]
NoResponse == [status |-> "none", data |-> NoData, message |-> Undefined]

\* A call: op is the function; url, body, username and password are the request
\* it awaits; net counts the requests it has sent.  Once settled: response is
\* what its request ended with, refreshed what refreshTokens() returned to it,
\* hdr the config.headers.Authorization it leaves, out/val/msg how its promise
\* settled (the value returned, or the message of the Error thrown), prior
\* the call that settled in the step before this one did (see Settle).  For a
\* product operation: id is the product it names, token what getToken()
\* returned to it (Undefined until it has), item the requests it has sent to
\* the product API, reply the data of the response to them.
NoPrior == [op |-> "none", body |-> Undefined, net |-> 0, status |-> "none"]
NoReply == [has |-> FALSE, list |-> <<>>]
NoCall == [op |-> "none", url |-> "", body |-> Undefined,
           username |-> "", password |-> "", net |-> 0,
           response |-> NoResponse, refreshed |-> "none", hdr |-> Undefined,
           out |-> "none", val |-> Undefined, msg |-> "", prior |-> NoPrior,
           id |-> 0, token |-> Undefined, item |-> 0, reply |-> NoReply]

Begin(op) == [NoCall EXCEPT !.op = op]
Await(rec, url, body) == [rec EXCEPT !.url = url, !.body = body, !.net = rec.net + 1]
Return(rec, v) == [rec EXCEPT !.url = "", !.out = "return", !.val = v]
Throw(rec, m) == [rec EXCEPT !.url = "", !.out = "throw", !.msg = m]

\* A new call may start while fewer than MaxCalls are suspended, on a page that
\* has not been navigated away: window.location.href = "/login" unloads it (the
\* responses in flight may still arrive before it is gone).
Free == BagCardinality(calls) < MaxCalls /\ location = "/"
\* The suspended calls of function op.
Waiting(op) == {rec \in BagToSet(calls) : rec.op = op}

\* --------------------------------------------------------------- the server
Emails == {"a@b.com"}
Passwords == {"wrong"}
Messages == {Undefined, Str(""), Str("bad creds")}

\* A request that did not succeed: rejected with a body {message?}, or no
\* response at all (error.response is undefined).
Rejected(m) == [status |-> "rejected", data |-> NoData, message |-> m]
NetworkError == [status |-> "network", data |-> NoData, message |-> Undefined]
\* The login functions read the message of a failure; refresh and logout do not.
LoginFailures == {Rejected(m) : m \in Messages} \cup {NetworkError}
Failures == {Rejected(Undefined), NetworkError}

\* A fresh token pair; the server chooses an expiry not yet passed.
Pairs == IF issued < MaxIssued
         THEN {[NoData EXCEPT !.accessToken = Jwt(issued + 1, e),
                              !.refreshToken = Rt(issued + 1)] : e \in now..MaxTime}
         ELSE {}

Ok(data) == [status |-> "ok", data |-> data, message |-> Undefined]

\* POST /user/signin -> {user, accessToken, refreshToken}
SigninResponses ==
  {Ok([p EXCEPT !.user = u]) : p \in Pairs, u \in {UserObj(1, "client"), UserObj(2, "admin")}}
  \cup LoginFailures
\* POST /user/admin-login -> {admin, accessToken, refreshToken}
AdminLoginResponses ==
  {Ok([p EXCEPT !.admin = UserObj(2, "admin")]) : p \in Pairs} \cup LoginFailures
\* POST /user/refresh-token -> {accessToken, refreshToken}
RefreshResponses == {Ok(p) : p \in Pairs} \cup Failures
\* POST /user/logout -> ignored
LogoutResponses == {Ok(NoData)} \cup Failures

Issue(r) == issued' = IF r.data.accessToken # Undefined THEN issued + 1 ELSE issued

\* ----------------------------------------------------------- initial state
\* What a page load may find in localStorage: it outlives the page and is
\* written by earlier sessions and by anything else on the origin.
InitialStorages ==
  {[k \in Keys |->
      CASE k = "accessToken" -> a
        [] k = "refreshToken" -> r
        [] k = "user" -> u
        [] OTHER -> Null] :
     a \in {Null, Str("garbage")} \cup {Jwt(0, e) : e \in 0..MaxTime},
     r \in {Null, Rt(0)},
     u \in {Null, Str("garbage"), Json(1, "client")}}

Init ==
  /\ storage \in InitialStorages
  /\ user = Null
  /\ isLoading = TRUE
  /\ location = "/"
  /\ now = 0
  /\ issued = 0
  /\ mounted = FALSE
  /\ calls = EmptyBag
  /\ last = NoCall
  /\ products = <<>>
  /\ loading = FALSE
  /\ error = Null
  /\ images = <<>>

\* A new call suspends at its await.
Suspend(rec) == calls' = calls (+) SetToBag({rec}) /\ last' = NoCall
\* What a settling call remembers of the call that settled just before it.  It
\* is kept where a property reads it: by a logout that follows a logout, and by
\* a call that resolves right after another one that was in flight with it.
Prior(rec) == [op |-> rec.op, body |-> rec.body, net |-> rec.net,
               status |-> rec.response.status]
Settle(rec) ==
  last' = [rec EXCEPT !.prior = IF \/ rec.op = "logout" /\ last.op = "logout"
                                   \/ rec.net > 0 /\ last.net > 0
                                THEN Prior(last) ELSE NoPrior]
\* A new call settles without having suspended.
Finish(rec) == Settle(rec) /\ UNCHANGED calls
\* The suspended call `me` settles as rec.
Resolve(me, rec) == calls' = calls (-) SetToBag({me}) /\ Settle(rec)

\* Time passes.
Tick ==
  /\ now < MaxTime
  /\ now' = now + 1
  /\ last' = NoCall
  /\ UNCHANGED <<storage, user, isLoading, location, issued, mounted, calls, products, loading, error, images>>

\* ------------------------------------------------------------ refreshTokens
\* Mutant: refreshTokens() without its early return.
RefreshSends_Always(s) == TRUE
\* const refreshToken = getItem("refreshToken"); if (!refreshToken) return false
RefreshSends(s) == Truthy(s["refreshToken"])

\* The storage after a successful refresh: setItem of both tokens.
StoreTokens(s, data) ==
  setItem(setItem(s, "accessToken", data.accessToken), "refreshToken", data.refreshToken)

\* Mutant: a successful refresh that does not persist the new tokens.
refreshTokensResume_NoStore(r) ==
  IF r.status = "ok"
  THEN UNCHANGED <<storage, user, location>>
  ELSE /\ storage' = ClearCreds(storage)
       /\ user' = Null
       /\ location' = "/login"

\* Mutant: a failed refresh that keeps Session.user.
refreshTokensResume_KeepsUser(r) ==
  IF r.status = "ok"
  THEN /\ storage' = StoreTokens(storage, r.data)
       /\ UNCHANGED <<user, location>>
  ELSE /\ storage' = ClearCreds(storage)
       /\ location' = "/login"
       /\ UNCHANGED user

\* The continuation of refreshTokens() after axios.post settles with r.
refreshTokensResume(r) ==
  IF r.status = "ok"
  THEN /\ storage' = StoreTokens(storage, r.data)
       /\ UNCHANGED <<user, location>>
  ELSE /\ storage' = ClearCreds(storage)
       /\ user' = Null
       /\ location' = "/login"

RefreshResult(r) == IF r.status = "ok" THEN "true" ELSE "false"

\* ----------------------------------------------------------------- getToken
getTokenStart ==
  /\ Free
  /\ LET accessToken == storage["accessToken"]
         me == Begin("getToken")
     IN  IF ~Truthy(accessToken) THEN Finish(Return(me, Null))
         ELSE IF DecodeThrows(accessToken) THEN Finish(Return(me, Null))
         ELSE IF ~Expired(accessToken, now) THEN Finish(Return(me, accessToken))
         ELSE IF ~RefreshSends(storage)
              THEN Finish(Return([me EXCEPT !.refreshed = "false"], Null))
              ELSE Suspend(Await(me, "/user/refresh-token", storage["refreshToken"]))
  /\ UNCHANGED <<storage, user, isLoading, location, now, issued, mounted, products, loading, error, images>>

getTokenResume ==
  /\ \E me \in Waiting("getToken"), r \in RefreshResponses :
       /\ refreshTokensResume(r)
       /\ Issue(r)
       /\ LET fin == [me EXCEPT !.refreshed = RefreshResult(r), !.response = r]
          IN  Resolve(me, Return(fin, IF fin.refreshed = "true"
                                    THEN storage'["accessToken"] ELSE Null))
  /\ UNCHANGED <<isLoading, now, mounted, products, loading, error, images>>

\* -------------------------------------------------------------------- login
\* Mutant: the server's message is ignored.
ErrorMessage_Generic(r, fallback) == fallback
\* The message of the Error the login functions throw.
ErrorMessage(r, fallback) ==
  IF r.status = "rejected" /\ Truthy(r.message) THEN r.message.r ELSE fallback

\* The three setItem calls of a successful login.
StoreLogin(s, data, u) ==
  setItem(StoreTokens(s, data), "user", JSONstringify(u))

loginStart ==
  /\ Free
  /\ \E email \in Emails, password \in Passwords :
       Suspend([Await(Begin("login"), "/user/signin", Undefined)
                     EXCEPT !.username = email, !.password = password])
  /\ isLoading' = TRUE
  /\ UNCHANGED <<storage, user, location, now, issued, mounted, products, loading, error, images>>

\* Mutant: a login whose response arrives right after another call settled is
\* superseded and writes nothing.
loginResume_Superseded ==
  /\ \E me \in Waiting("login"), r \in SigninResponses :
       /\ Issue(r)
       /\ LET fin == [me EXCEPT !.response = r]
          IN  IF r.status = "ok" /\ last.op = "none"
              THEN /\ storage' = StoreLogin(storage, r.data, r.data.user)
                   /\ user' = r.data.user
                   /\ Resolve(me, Return(fin, Undefined))
              ELSE IF r.status = "ok"
              THEN /\ Resolve(me, Return(fin, Undefined))
                   /\ UNCHANGED <<storage, user>>
              ELSE /\ Resolve(me, Throw(fin, ErrorMessage(r, "Invalid email or password")))
                   /\ UNCHANGED <<storage, user>>
  /\ isLoading' = FALSE
  /\ UNCHANGED <<location, now, mounted, products, loading, error, images>>

loginResume ==
  /\ \E me \in Waiting("login"), r \in SigninResponses :
       /\ Issue(r)
       /\ LET fin == [me EXCEPT !.response = r]
          IN  IF r.status = "ok"
              THEN /\ storage' = StoreLogin(storage, r.data, r.data.user)
                   /\ user' = r.data.user
                   /\ Resolve(me, Return(fin, Undefined))
              ELSE /\ Resolve(me, Throw(fin, ErrorMessage(r, "Invalid email or password")))
                   /\ UNCHANGED <<storage, user>>
  /\ isLoading' = FALSE
  /\ UNCHANGED <<location, now, mounted, products, loading, error, images>>

adminLoginStart ==
  /\ Free
  /\ \E email \in Emails, password \in Passwords :
       Suspend([Await(Begin("adminLogin"), "/user/admin-login", Undefined)
                     EXCEPT !.username = email, !.password = password])
  /\ isLoading' = TRUE
  /\ UNCHANGED <<storage, user, location, now, issued, mounted, products, loading, error, images>>

\* Mutant: adminLogin reads the `user` field of the response, as login does.
adminLoginResume_UserField ==
  /\ \E me \in Waiting("adminLogin"), r \in AdminLoginResponses :
       /\ Issue(r)
       /\ LET fin == [me EXCEPT !.response = r]
          IN  IF r.status = "ok"
              THEN /\ storage' = StoreLogin(storage, r.data, r.data.user)
                   /\ user' = r.data.user
                   /\ Resolve(me, Return(fin, Undefined))
              ELSE /\ Resolve(me, Throw(fin, ErrorMessage(r, "Invalid admin credentials")))
                   /\ UNCHANGED <<storage, user>>
  /\ isLoading' = FALSE
  /\ UNCHANGED <<location, now, mounted, products, loading, error, images>>

adminLoginResume ==
  /\ \E me \in Waiting("adminLogin"), r \in AdminLoginResponses :
       /\ Issue(r)
       /\ LET fin == [me EXCEPT !.response = r]
          IN  IF r.status = "ok"
              THEN /\ storage' = StoreLogin(storage, r.data, r.data.admin)
                   /\ user' = r.data.admin
                   /\ Resolve(me, Return(fin, Undefined))
              ELSE /\ Resolve(me, Throw(fin, ErrorMessage(r, "Invalid admin credentials")))
                   /\ UNCHANGED <<storage, user>>
  /\ isLoading' = FALSE
  /\ UNCHANGED <<location, now, mounted, products, loading, error, images>>

\* -------------------------------------------------------------- googleLogin
\* credentialResponse.credential: missing, not a JWT, or a Google ID token
\* (subject 7) that expires when the clock next advances.
Credentials == {Undefined, Str("garbage"), Jwt(7, now)}

\* The User built from the decoded claims.
GoogleUser(credential) == UserObj(jwtDecode(credential).userId, "client")

\* Mutant: the credential is checked and nothing is persisted.
StoreGoogle_Nothing(s, credential, u) == s
\* The three setItem calls of googleLogin.
StoreGoogle(s, credential, u) ==
  setItem(setItem(setItem(s, "accessToken", credential), "token", credential),
          "user", JSONstringify(u))

\* Mutant: a missing credential is stored as it is.
GoogleRejects_Never(credential) == FALSE
\* if (!credential) throw ...; jwtDecode(credential) throws
GoogleRejects(credential) == ~Truthy(credential) \/ DecodeThrows(credential)

\* Mutant: googleLogin ends the password session, removing its refresh token.
googleLogin_DropsRefreshToken ==
  /\ Free
  /\ \E credential \in Credentials :
       LET me == [Begin("googleLogin") EXCEPT !.body = credential]
       IN  IF GoogleRejects(credential)
           THEN /\ Finish(Throw(me, "Google login failed"))
                /\ UNCHANGED <<storage, user>>
           ELSE /\ storage' = removeItem(StoreGoogle(storage, credential,
                                                     GoogleUser(credential)),
                                         "refreshToken")
                /\ user' = GoogleUser(credential)
                /\ Finish(Return(me, Undefined))
  /\ isLoading' = FALSE
  /\ UNCHANGED <<location, now, issued, mounted, products, loading, error, images>>

\* No await: the whole call is one step.
googleLogin ==
  /\ Free
  /\ \E credential \in Credentials :
       LET me == [Begin("googleLogin") EXCEPT !.body = credential]
       IN  IF GoogleRejects(credential)
           THEN /\ Finish(Throw(me, "Google login failed"))
                /\ UNCHANGED <<storage, user>>
           ELSE /\ storage' = StoreGoogle(storage, credential, GoogleUser(credential))
                /\ user' = GoogleUser(credential)
                /\ Finish(Return(me, Undefined))
  /\ isLoading' = FALSE
  /\ UNCHANGED <<location, now, issued, mounted, products, loading, error, images>>

\* ------------------------------------------------------------------- logout
\* finally { setUser(null); removeItem x 3 }
LogoutCleanup ==
  /\ user' = Null
  /\ storage' = ClearCreds(storage)

\* Mutant: logout posts to the server whether or not a token is stored.
logoutStart_AlwaysSends ==
  /\ Free
  /\ Suspend(Await(Begin("logout"), "/user/logout", Undefined))
  /\ UNCHANGED <<storage, user, isLoading, location, now, issued, mounted, products, loading, error, images>>

logoutStart ==
  /\ Free
  /\ LET accessToken == storage["accessToken"]
         me == Begin("logout")
     IN  IF Truthy(accessToken)
         THEN /\ Suspend(Await(me, "/user/logout", Undefined))
              /\ UNCHANGED <<storage, user>>
         ELSE /\ LogoutCleanup
              /\ Finish(Return(me, Undefined))
  /\ UNCHANGED <<isLoading, location, now, issued, mounted, products, loading, error, images>>

\* Mutant: the cleanup sits in the try block, so a failed request skips it.
logoutResume_CleanupInTry ==
  /\ \E me \in Waiting("logout"), r \in LogoutResponses :
       /\ Resolve(me, Return([me EXCEPT !.response = r], Undefined))
       /\ IF r.status = "ok" THEN LogoutCleanup ELSE UNCHANGED <<storage, user>>
  /\ UNCHANGED <<isLoading, location, now, issued, mounted, products, loading, error, images>>

\* The inner catch swallows a failed request; the finally block runs either way.
logoutResume ==
  /\ \E me \in Waiting("logout"), r \in LogoutResponses :
       Resolve(me, Return([me EXCEPT !.response = r], Undefined))
  /\ LogoutCleanup
  /\ UNCHANGED <<isLoading, location, now, issued, mounted, products, loading, error, images>>

\* ------------------------------------------------------ request interceptor
\* The config the interceptor resolves with; hdr is its Authorization header.
Config == Val("config", 0, 0, "")

\* Mutant: single flight, the interceptor sends no refresh request while one
\* carrying the stored refresh token is awaited.
interceptorStart_SingleFlight ==
  /\ Free
  /\ LET accessToken == storage["accessToken"]
         me == Begin("interceptor")
     IN  IF ~Truthy(accessToken) THEN Finish(Return(me, Config))
         ELSE IF DecodeThrows(accessToken) THEN Finish(Return(me, Config))
         ELSE IF ~Expired(accessToken, now)
              THEN Finish(Return([me EXCEPT !.hdr = Bearer(accessToken)], Config))
         ELSE IF ~Truthy(storage["refreshToken"]) THEN Finish(Return(me, Config))
         ELSE IF \E rec \in BagToSet(calls) : rec.body = storage["refreshToken"]
              THEN Finish(Return(me, Config))
         ELSE Suspend(Await(me, "/user/refresh-token", storage["refreshToken"]))
  /\ UNCHANGED <<storage, user, isLoading, location, now, issued, mounted, products, loading, error, images>>

interceptorStart ==
  /\ Free
  /\ LET accessToken == storage["accessToken"]
         me == Begin("interceptor")
     IN  IF ~Truthy(accessToken) THEN Finish(Return(me, Config))
         ELSE IF DecodeThrows(accessToken) THEN Finish(Return(me, Config))
         ELSE IF ~Expired(accessToken, now)
              THEN Finish(Return([me EXCEPT !.hdr = Bearer(accessToken)], Config))
         ELSE IF ~Truthy(storage["refreshToken"]) THEN Finish(Return(me, Config))
         ELSE Suspend(Await(me, "/user/refresh-token", storage["refreshToken"]))
  /\ UNCHANGED <<storage, user, isLoading, location, now, issued, mounted, products, loading, error, images>>

\* Mutant: a failed inline refresh clears storage and does not redirect.
interceptorRefreshed_NoRedirect(r) ==
  IF r.status = "ok"
  THEN /\ storage' = StoreTokens(storage, r.data)
       /\ UNCHANGED location
  ELSE /\ storage' = ClearCreds(storage)
       /\ UNCHANGED location

\* The storage and the redirect after the inline refresh settles with r.
interceptorRefreshed(r) ==
  IF r.status = "ok"
  THEN /\ storage' = StoreTokens(storage, r.data)
       /\ UNCHANGED location
  ELSE /\ storage' = ClearCreds(storage)
       /\ location' = "/login"

\* Mutant: the refreshed token is stored and not attached.
interceptorHeader_Stale(r, hdr) == hdr
\* config.headers.Authorization after the inline refresh settles with r.
interceptorHeader(r, hdr) ==
  IF r.status = "ok" THEN Bearer(ToStored(r.data.accessToken)) ELSE hdr

interceptorResume ==
  /\ \E me \in Waiting("interceptor"), r \in RefreshResponses :
       /\ interceptorRefreshed(r)
       /\ Issue(r)
       /\ Resolve(me, Return([me EXCEPT !.response = r,
                                       !.hdr = interceptorHeader(r, me.hdr)],
                            Config))
  /\ UNCHANGED <<user, isLoading, now, mounted, products, loading, error, images>>

\* ---------------------------------------------------------------- checkAuth
\* The mount effect: runs once per page load.
checkAuthStart ==
  /\ Free
  /\ ~mounted
  /\ mounted' = TRUE
  /\ LET savedUser == storage["user"]
         accessToken == storage["accessToken"]
         me == Begin("checkAuth")
     IN  IF ~(Truthy(savedUser) /\ Truthy(accessToken))
         THEN /\ Finish(Return(me, Undefined))
              /\ isLoading' = FALSE
              /\ UNCHANGED <<storage, user>>
         ELSE IF ParseThrows(savedUser)
         THEN /\ storage' = ClearCreds(storage)
              /\ Finish(Return(me, Undefined))
              /\ isLoading' = FALSE
              /\ UNCHANGED user
         ELSE IF DecodeThrows(accessToken)
         THEN /\ user' = JSONparse(savedUser)
              /\ storage' = ClearCreds(storage)
              /\ Finish(Return(me, Undefined))
              /\ isLoading' = FALSE
         ELSE IF ~Expired(accessToken, now)
         THEN /\ user' = JSONparse(savedUser)
              /\ Finish(Return(me, Undefined))
              /\ isLoading' = FALSE
              /\ UNCHANGED storage
         ELSE IF ~RefreshSends(storage)
         THEN /\ user' = JSONparse(savedUser)
              /\ Finish(Return([me EXCEPT !.refreshed = "false"], Undefined))
              /\ isLoading' = FALSE
              /\ UNCHANGED storage
         ELSE /\ user' = JSONparse(savedUser)
              /\ Suspend(Await(me, "/user/refresh-token", storage["refreshToken"]))
              /\ UNCHANGED <<storage, isLoading>>
  /\ UNCHANGED <<location, now, issued, products, loading, error, images>>

\* Mutant: setIsLoading(false) is skipped when the refresh failed.
checkAuthResume_KeepsLoading ==
  /\ \E me \in Waiting("checkAuth"), r \in RefreshResponses :
       /\ refreshTokensResume(r)
       /\ Issue(r)
       /\ Resolve(me, Return([me EXCEPT !.refreshed = RefreshResult(r),
                                       !.response = r], Undefined))
       /\ isLoading' = IF r.status = "ok" THEN FALSE ELSE isLoading
  /\ UNCHANGED <<now, mounted, products, loading, error, images>>

checkAuthResume ==
  /\ \E me \in Waiting("checkAuth"), r \in RefreshResponses :
       /\ refreshTokensResume(r)
       /\ Issue(r)
       /\ Resolve(me, Return([me EXCEPT !.refreshed = RefreshResult(r),
                                       !.response = r], Undefined))
  /\ isLoading' = FALSE
  /\ UNCHANGED <<now, mounted, products, loading, error, images>>

\* ---------------------------------------------------------- ProductProvider
ProductOps == {"fetchProducts", "addProduct", "updateProduct", "deleteProduct"}
ProductIds == {1, 2}
\* A product: its id and the revision of its fields.
Product(id, v) == Val("product", id, v, "")

ItemUrl(op) ==
  CASE op = "fetchProducts" -> "/item/product-details"
    [] op = "addProduct" -> "/item/add-products"
    [] op = "updateProduct" -> "/item/update-products"
    [] OTHER -> "/item/delete-products"

\* The message setError() gets when the failure carries none.
Fallback(op) ==
  CASE op = "fetchProducts" -> "Failed to fetch products"
    [] op = "addProduct" -> "Failed to add product"
    [] op = "updateProduct" -> "Failed to update product"
    [] OTHER -> "Failed to delete product"

\* response.data of the product API: productDetails, the product added,
\* updatedProduct; `has` is false when the field is missing.
Reply(list) == [has |-> TRUE, list |-> list]
Replies(me) ==
  CASE me.op = "fetchProducts" ->
         {NoReply, Reply(<<Product(1, 0)>>)}
    [] me.op = "addProduct" ->
         IF Len(products) < MaxProducts
         THEN {NoReply, Reply(<<Product(2, 0)>>)} ELSE {NoReply}
    [] me.op = "updateProduct" -> {NoReply, Reply(<<Product(me.id, 1)>>)}
    [] OTHER -> {NoReply}

\* What getToken() returns without awaiting, Undefined when it must refresh.
TokenNow ==
  LET accessToken == storage["accessToken"]
  IN  IF ~Truthy(accessToken) THEN Null
      ELSE IF DecodeThrows(accessToken) THEN Null
      ELSE IF ~Expired(accessToken, now) THEN accessToken
      ELSE IF ~RefreshSends(storage) THEN Null
      ELSE Undefined

\* A request to the product API that did not succeed, with and without a
\* message.
ProductFailures == {Rejected(Str("bad creds")), NetworkError}

\* Mutant: the operation goes on without a token.
NoToken_Never(token) == FALSE
\* if (!token) throw new Error("Authentication required")
NoToken(token) == ~Truthy(token)

\* The request the operation sends once it holds the token.
ItemRequest(rec, token) ==
  [rec EXCEPT !.url = ItemUrl(rec.op), !.body = Undefined, !.token = token,
              !.hdr = Bearer(token), !.net = rec.net + 1, !.item = rec.item + 1]

\* catch of a non-axios Error: setError(fallback), rethrow; finally setLoading(false)
ProductThrows(rec, m) ==
  /\ error' = Str(Fallback(rec.op))
  /\ loading' = FALSE
  /\ UNCHANGED products

\* setLoading(true); setError(null); const token = await getToken(); ...
ProductStart(op, id) ==
  /\ Free /\ BagCardinality(calls) < MaxFlight
  /\ LET me == [Begin(op) EXCEPT !.id = id]
         token == TokenNow
     IN  IF token = Undefined
         THEN /\ Suspend(Await(me, "/user/refresh-token", storage["refreshToken"]))
              /\ loading' = TRUE /\ error' = Null /\ UNCHANGED products
         ELSE IF NoToken(token)
         THEN /\ Finish(Throw([me EXCEPT !.token = token], "Authentication required"))
              /\ ProductThrows(me, "Authentication required")
         ELSE /\ Suspend(ItemRequest(me, token))
              /\ loading' = TRUE /\ error' = Null /\ UNCHANGED products
  /\ UNCHANGED <<storage, user, isLoading, location, now, issued, mounted, images>>

\* The refresh request of the awaited getToken() settles.
ProductToken(op) ==
  /\ \E me \in Waiting(op), r \in RefreshResponses :
       /\ me.url = "/user/refresh-token"
       /\ refreshTokensResume(r)
       /\ Issue(r)
       /\ LET fin == [me EXCEPT !.refreshed = RefreshResult(r)]
              token == IF fin.refreshed = "true" THEN storage'["accessToken"] ELSE Null
          IN  IF NoToken(token)
              THEN /\ Resolve(me, Throw([fin EXCEPT !.token = token, !.response = r],
                                        "Authentication required"))
                   /\ ProductThrows(me, "Authentication required")
              ELSE /\ calls' = (calls (-) SetToBag({me})) (+) SetToBag({ItemRequest(fin, token)})
                   /\ last' = NoCall
                   /\ UNCHANGED <<products, loading, error>>
  /\ UNCHANGED <<isLoading, now, mounted, images>>

\* setProducts(...) of a response that has the field the operation reads.
Updated(me, reply) ==
  CASE me.op = "fetchProducts" -> reply.list
    [] me.op = "addProduct" -> Append(products, reply.list[1])
    [] me.op = "updateProduct" ->
         [i \in 1..Len(products) |->
            IF products[i].n = me.id THEN reply.list[1] ELSE products[i]]
    [] OTHER -> SelectSeq(products, LAMBDA q : q.n # me.id)

\* The request to the product API settles.
ProductResume(op) ==
  /\ \E me \in Waiting(op), r \in {Ok(NoData)} \cup ProductFailures :
     \E reply \in Replies(me) :
       /\ me.url = ItemUrl(op)
       /\ r.status # "ok" => reply = NoReply
       /\ LET fin == [me EXCEPT !.response = r, !.reply = reply]
          IN  IF r.status # "ok"
              THEN /\ Resolve(me, Throw(fin, "AxiosError"))
                   /\ error' = Str(ErrorMessage(r, Fallback(op)))
                   /\ UNCHANGED products
              ELSE IF reply.has \/ op = "deleteProduct"
              THEN /\ Resolve(me, Return(fin, IF op \in {"addProduct", "updateProduct"}
                                              THEN reply.list[1] ELSE Undefined))
                   /\ products' = Updated(me, reply)
                   /\ UNCHANGED error
              ELSE /\ Resolve(me, Throw(fin, "Invalid response format"))
                   /\ error' = Str(Fallback(op))
                   /\ UNCHANGED products
  /\ loading' = FALSE
  /\ UNCHANGED <<storage, user, isLoading, location, now, issued, mounted, images>>

fetchProductsStart == ProductStart("fetchProducts", 0)
fetchProductsToken == ProductToken("fetchProducts")
fetchProductsResume == ProductResume("fetchProducts")
addProductStart == ProductStart("addProduct", 0)
addProductToken == ProductToken("addProduct")
addProductResume == ProductResume("addProduct")
updateProductStart == \E id \in ProductIds : ProductStart("updateProduct", id)
updateProductToken == ProductToken("updateProduct")
updateProductResume == ProductResume("updateProduct")
deleteProductStart == \E id \in ProductIds : ProductStart("deleteProduct", id)
deleteProductToken == ProductToken("deleteProduct")
deleteProductResume == ProductResume("deleteProduct")

\* --------------------------------------------------------------- AddProduct
MaxImages == 8
Files == {1, 2}
\* e.target.files: the files of one selection, in order.
Selections == UNION {[1..n -> Files] : n \in 0..MaxPick}

\* Mutant: the selection is never refused.
TooMany_Never(files, imgs) == FALSE
\* files.length + images.length > 8
TooMany(files, imgs) == Len(files) + Len(imgs) > MaxImages

\* The file input is rendered while images.length < 8.  The settled call keeps
\* the number of files selected in id and the title of the toast in msg.
handleImageChange ==
  /\ Len(images) < MaxImages
  /\ \E files \in Selections :
       LET me == [Begin("handleImageChange") EXCEPT !.id = Len(files)]
       IN  IF TooMany(files, images)
           THEN /\ Finish(Return([me EXCEPT !.msg = "Too many images"], Undefined))
                /\ UNCHANGED images
           ELSE /\ images' = images \o files
                /\ Finish(Return(me, Undefined))
  /\ UNCHANGED <<storage, user, isLoading, location, now, issued, mounted,
                 products, loading, error>>

\* The remove button of the image at index (1-based here).
removeImage ==
  /\ \E index \in 1..Len(images) :
       /\ images' = SubSeq(images, 1, index - 1) \o SubSeq(images, index + 1, Len(images))
       /\ Finish(Return([Begin("removeImage") EXCEPT !.id = index], Undefined))
  /\ UNCHANGED <<storage, user, isLoading, location, now, issued, mounted,
                 products, loading, error>>

\* ------------------------------------------------------------ specification
Next ==
  \/ Tick
  \/ \/ checkAuthStart \/ checkAuthResume
       \/ getTokenStart \/ getTokenResume
       \/ loginStart \/ loginResume
       \/ adminLoginStart \/ adminLoginResume
       \/ googleLogin
       \/ logoutStart \/ logoutResume
       \/ interceptorStart \/ interceptorResume

Spec == Init /\ [][Next]_vars

\* A first visit: the page loads over an empty localStorage.
InitEmpty == Init /\ storage = [k \in Keys |-> Null]
SpecEmpty == InitEmpty /\ [][Next]_vars

\* The product operations over what the page load found in localStorage.
NextProducts ==
  \/ Tick
  \/ fetchProductsStart \/ fetchProductsToken \/ fetchProductsResume
  \/ addProductStart \/ addProductToken \/ addProductResume
  \/ updateProductStart \/ updateProductToken \/ updateProductResume
  \/ deleteProductStart \/ deleteProductToken \/ deleteProductResume

\* The page load finds a stored user, with whatever tokens.
InitProducts == Init /\ storage["user"] = Json(1, "client")
SpecProducts == InitProducts /\ [][NextProducts]_vars

\* The image list of the add-product form.
NextImages == handleImageChange \/ removeImage
SpecImages == InitEmpty /\ [][NextImages]_vars

\* The refresh request of the mount check receives a response.
SpecLive == Spec /\ WF_vars(checkAuthResume)

\* ============================================================== properties
\* What the properties read: the storage keys, the settled call `last`, and
\* whether a call of op started in the step (it either settled at once, leaving
\* the bag of suspended calls as it was, or joined the bag).
CredsAbsent == \A k \in CredKeys : storage[k] = Null
Failed(rec) == rec.response.status \in {"rejected", "network"}
Succeeded(rec) == rec.response.status = "ok"
Called(op) ==
  \/ calls' = calls /\ last'.op = op
  \/ \E rec \in BagToSet(calls') :
       rec.op = op /\ CopiesIn(rec, calls') > CopiesIn(rec, calls)
Sent(op, url, body) ==
  \E rec \in BagToSet(calls') :
    /\ rec.op = op /\ rec.url = url /\ rec.body = body /\ rec.net = 1
    /\ CopiesIn(rec, calls') = CopiesIn(rec, calls) + 1
\* The stored access token decodes and is not expired / is expired.
StoredTokenValid == storage["accessToken"].t = "jwt" /\ storage["accessToken"].e >= now
StoredTokenExpired == storage["accessToken"].t = "jwt" /\ storage["accessToken"].e < now
StoredTokenUndecodable == storage["accessToken"].t = "str" /\ storage["accessToken"].r # ""

\* C1: logout() never throws, and when it completes (the server call having
\* succeeded, failed, or not been made) accessToken, refreshToken and user are
\* absent from storage and Session.user is null.
C1_LogoutClears ==
  last.op = "logout" =>
    /\ last.out = "return"
    /\ CredsAbsent
    /\ user = Null

\* C1 witness: a logout whose server call failed has completed.
C1_Witness == last.op = "logout" /\ last.net = 1 /\ Failed(last)

\* C2: when the stored access token decodes and its exp is not before the
\* current time, getToken() returns exactly that token, sends no request, and
\* leaves storage and Session.user unchanged.
C2_GetTokenValid ==
  [][(StoredTokenValid /\ Called("getToken")) =>
       /\ last'.op = "getToken" /\ last'.out = "return"
       /\ last'.val = storage["accessToken"]
       /\ last'.net = 0 /\ calls' = calls
       /\ storage' = storage /\ user' = user]_vars

\* C2 witness: getToken() has returned the stored token whose exp equals the
\* current time, without a request.
C2_Witness ==
  /\ last.op = "getToken" /\ last.net = 0
  /\ last.val = storage["accessToken"] /\ last.val.t = "jwt" /\ last.val.e = now

\* C3: getToken() on an expired stored token with a stored refresh token sends
\* one refresh request carrying it; when the server accepts, getToken()
\* has sent exactly that one request, returns the access token of the response,
\* and storage holds the response's accessToken/refreshToken pair.
C3_GetTokenRefreshes ==
  [][/\ (StoredTokenExpired /\ storage["refreshToken"] # Null /\ Called("getToken")) =>
          /\ Sent("getToken", "/user/refresh-token", storage["refreshToken"])
          /\ last' = NoCall
     /\ (last'.op = "getToken" /\ Succeeded(last')) =>
          /\ last'.net = 1 /\ last'.out = "return"
          /\ last'.val = last'.response.data.accessToken
          /\ storage'["accessToken"] = last'.response.data.accessToken
          /\ storage'["refreshToken"] = last'.response.data.refreshToken]_vars

\* C3 witness: getToken() has returned a freshly issued token after one request.
C3_Witness ==
  /\ last.op = "getToken" /\ Succeeded(last) /\ last.net = 1
  /\ last.val.t = "jwt" /\ last.val.n = issued

\* C4: with an expired stored token and no stored refresh token,
\* refreshTokens() reports false without a request (from getToken and from
\* the mount check alike), and getToken() returns null and sends nothing.
C4_NoRefreshToken ==
  [][(StoredTokenExpired /\ storage["refreshToken"] = Null) =>
       /\ Called("getToken") =>
            /\ last'.op = "getToken" /\ last'.out = "return" /\ last'.val = Null
            /\ last'.refreshed = "false" /\ last'.net = 0 /\ calls' = calls
       /\ (Called("checkAuth") /\ storage["user"].t = "json") =>
            /\ last'.op = "checkAuth"
            /\ last'.refreshed = "false" /\ last'.net = 0 /\ calls' = calls]_vars

\* C4 witness: getToken() has returned null because refreshTokens() had no
\* refresh token to send.
C4_Witness ==
  /\ last.op = "getToken" /\ last.refreshed = "false" /\ last.net = 0
  /\ last.val = Null /\ storage["accessToken"].t = "jwt"

\* C5: when the request refreshTokens() sent fails (no response, or rejected),
\* refreshTokens() returns false to its caller without throwing, the three
\* storage keys are absent, Session.user is null and the location is the
\* login route.
C5_RefreshFailure ==
  (last.op \in {"getToken", "checkAuth"} /\ Failed(last)) =>
    /\ last.refreshed = "false" /\ last.out = "return"
    /\ CredsAbsent
    /\ user = Null
    /\ location = "/login"

\* C5 witness: a getToken() whose refresh request got no response has settled.
C5_Witness ==
  last.op = "getToken" /\ last.net = 1 /\ last.response.status = "network"

\* C6: after a successful login or adminLogin, storage holds the response's
\* accessToken and refreshToken and the JSON text of its user (field `user`
\* for login, `admin` for adminLogin), and Session.user is that user.
C6_LoginStores ==
  (last.op \in {"login", "adminLogin"} /\ Succeeded(last)) =>
    LET d == last.response.data
        u == IF last.op = "login" THEN d.user ELSE d.admin
    IN  /\ storage["accessToken"] = d.accessToken
        /\ storage["refreshToken"] = d.refreshToken
        /\ u.t = "user"
        /\ storage["user"] = Val("json", u.n, 0, u.r)
        /\ user = u

\* C6 witness: an adminLogin has succeeded.
C6_Witness == last.op = "adminLogin" /\ Succeeded(last) /\ user.r = "admin"

\* C7 as stated: a failed login() throws the server's message whenever the
\* failure carries a message field, and "Invalid email or password" otherwise;
\* no step of the call changes Session.user or storage, and isLoading is
\* false when it exits.
C7_LoginFailure_AsStated ==
  [][/\ Called("login") => (storage' = storage /\ user' = user)
     /\ (last'.op = "login" /\ Failed(last')) =>
          /\ last'.out = "throw"
          /\ last'.msg = IF last'.response.message # Undefined
                         THEN last'.response.message.r
                         ELSE "Invalid email or password"
          /\ storage' = storage /\ user' = user
          /\ isLoading' = FALSE]_vars

\* C7 (amended): a failed login() throws the server's message when the failure
\* carries a non-empty message, and "Invalid email or password" otherwise (no
\* response, no message field, or an empty message); no step of the call
\* changes Session.user or storage, and isLoading is false when it exits.
C7_LoginFailure ==
  [][/\ Called("login") => (storage' = storage /\ user' = user)
     /\ (last'.op = "login" /\ Failed(last')) =>
          /\ last'.out = "throw"
          /\ last'.msg = IF last'.response.message \notin {Undefined, Str("")}
                         THEN last'.response.message.r
                         ELSE "Invalid email or password"
          /\ storage' = storage /\ user' = user
          /\ isLoading' = FALSE]_vars

\* C7 witness: a login rejected with {message: "bad creds"} has thrown
\* "bad creds" while a user was logged in.
C7_Witness ==
  /\ last.op = "login" /\ last.response.message = Str("bad creds")
  /\ last.out = "throw" /\ last.msg = "bad creds"
  /\ user # Null /\ ~isLoading

C9_InterceptorFailure ==
  (last.op = "interceptor" /\ Failed(last)) =>
    /\ CredsAbsent
    /\ location = "/login"
    /\ last.out = "return" /\ last.val = Config
    /\ last.hdr = Undefined

\* C9 witness: an interceptor whose refresh was rejected has resolved.
C9_Witness ==
  last.op = "interceptor" /\ last.net = 1 /\ last.response.status = "rejected"

\* C10: when the stored access token cannot be decoded, the interceptor
\* resolves with a request that has no Authorization header, sends nothing and
\* leaves storage unchanged, while getToken() returns null.
C10_UndecodableToken ==
  [][StoredTokenUndecodable =>
       /\ Called("interceptor") =>
            /\ last'.op = "interceptor" /\ last'.out = "return" /\ last'.val = Config
            /\ last'.hdr = Undefined
            /\ last'.net = 0 /\ calls' = calls
            /\ storage' = storage
       /\ Called("getToken") =>
            /\ last'.op = "getToken" /\ last'.out = "return" /\ last'.val = Null
            /\ last'.net = 0 /\ calls' = calls]_vars

\* C10 witness: the interceptor has let a request through unauthenticated over
\* an undecodable stored token.
C10_Witness ==
  /\ last.op = "interceptor" /\ last.out = "return" /\ last.hdr = Undefined
  /\ StoredTokenUndecodable

\* C11: googleLogin called with a missing or undecodable credential throws
\* "Google login failed" and changes no storage key and not Session.user.
C11_GoogleLoginRejects ==
  [][(calls' = calls /\ last'.op = "googleLogin" /\ last'.body.t # "jwt") =>
       /\ last'.out = "throw" /\ last'.msg = "Google login failed"
       /\ storage' = storage /\ user' = user]_vars

\* C11 witness: googleLogin without a credential has thrown while a session
\* was stored.
C11_Witness ==
  /\ last.op = "googleLogin" /\ last.body = Undefined
  /\ last.out = "throw" /\ last.msg = "Google login failed"
  /\ user # Null /\ storage["accessToken"] # Null

\* C12: googleLogin with a decodable credential sends no request, stores the
\* credential itself under accessToken, and sets the stored user and
\* Session.user to the user of the credential's claims with role "client".
C12_GoogleLoginStores ==
  (last.op = "googleLogin" /\ last.body.t = "jwt") =>
    /\ last.out = "return" /\ last.net = 0
    /\ storage["accessToken"] = last.body
    /\ storage["user"] = Val("json", last.body.n, 0, "client")
    /\ user = Val("user", last.body.n, 0, "client")

\* C12 witness: googleLogin has returned over the session of another user.
C12_Witness ==
  /\ last.op = "googleLogin" /\ last.out = "return"
  /\ storage["accessToken"].t = "jwt" /\ storage["accessToken"].n = 7
  /\ user.n = 7 /\ user.r = "client"
  /\ storage["refreshToken"] # Null

\* C13: a logout() called right after a logout() has completed sends no request
\* (no access token is stored) and ends as the first did: the three keys
\* absent and Session.user null.
C13_LogoutTwice ==
  [][(last.op = "logout" /\ Called("logout")) =>
       /\ CredsAbsent /\ user = Null
       /\ last'.op = "logout" /\ last'.out = "return"
       /\ last'.net = 0 /\ calls' = calls
       /\ CredsAbsent' /\ user' = Null
       /\ storage' = storage]_vars

\* C13 witness: a second logout has completed without a request, right after
\* a first one whose request was sent.
C13_Witness ==
  /\ last.op = "logout" /\ last.net = 0
  /\ last.prior.op = "logout" /\ last.prior.net = 1
  /\ CredsAbsent /\ user = Null

\* C14: starting from empty storage, whenever every call made has completed,
\* accessToken, refreshToken and user are all three present or all three absent.
C14_AllOrNone ==
  calls = EmptyBag =>
    \/ \A k \in CredKeys : storage[k] # Null
    \/ \A k \in CredKeys : storage[k] = Null

\* C15: Session.user is non-null only after a login, adminLogin or googleLogin
\* has succeeded, or after the mount check found a stored user together with
\* an access token that decodes and is unexpired or is being refreshed (a
\* refresh that fails resets the user, C5).  Stated on the steps that set it.
C15_UserOnlyAfterLogin ==
  [][(user' # Null /\ user' # user) =>
       \/ last'.op \in {"login", "adminLogin", "googleLogin"} /\ last'.out = "return"
       \/ /\ Called("checkAuth")
          /\ storage["user"].t = "json"
          /\ storage["accessToken"].t = "jwt"
          /\ \/ storage["accessToken"].e >= now
             \/ Sent("checkAuth", "/user/refresh-token", storage["refreshToken"])]_vars

\* C16: when the mount check finishes after the stored access token failed to
\* decode, or after refreshTokens() reported failure for the expired token
\* (request failed, or no refresh token to send), the three keys are absent.
C16_InitFailureClears ==
  [][/\ (/\ calls' = calls /\ last'.op = "checkAuth"
         /\ storage["user"].t = "json" /\ StoredTokenUndecodable) => CredsAbsent'
     /\ (last'.op = "checkAuth" /\ last'.refreshed = "false") => CredsAbsent']_vars

\* C17: every branch of the mount check ends with isLoading false, and a mount
\* check that awaits its refresh request eventually ends.
C17_LoadingEnds ==
  /\ [](last.op = "checkAuth" => ~isLoading)
  /\ (Waiting("checkAuth") # {}) ~> (last.op = "checkAuth" /\ ~isLoading)

\* C17 witness: the mount check has ended after a refresh request that failed,
\* with isLoading false.
C17_Witness ==
  last.op = "checkAuth" /\ last.net = 1 /\ Failed(last) /\ ~isLoading

\* C18: when the mount check finds some but not all of accessToken,
\* refreshToken and user, it clears the three keys and restores no session.
C18_PartialCleared ==
  [][(/\ Called("checkAuth")
      /\ \E k \in CredKeys : storage[k] # Null
      /\ \E k \in CredKeys : storage[k] = Null) =>
       (CredsAbsent' /\ user' = user)]_vars

\* The settled call had awaited a request and resolved in the step after
\* another call that had awaited one: the two were in flight together.
Overlapped == last.net > 0 /\ last.prior.net > 0

\* C19: overlapping calls are not aborted (a suspended call leaves the bag only
\* by resolving, one per step), and when the later of two overlapping calls
\* resolves, storage and Session.user hold what that call writes: a successful
\* login or adminLogin its tokens and user, a successful refresh its token
\* pair, a logout nothing (keys absent, user null), whatever the other wrote.
C19_LastResolvedWins ==
  /\ [](Overlapped =>
          /\ (last.op \in {"login", "adminLogin"} /\ Succeeded(last)) =>
               LET d == last.response.data
                   u == IF last.op = "login" THEN d.user ELSE d.admin
               IN  /\ storage["accessToken"] = d.accessToken
                   /\ storage["refreshToken"] = d.refreshToken
                   /\ storage["user"] = Val("json", u.n, 0, u.r)
                   /\ user = u
          /\ (last.op \in {"getToken", "checkAuth", "interceptor"} /\ Succeeded(last)) =>
               /\ storage["accessToken"] = last.response.data.accessToken
               /\ storage["refreshToken"] = last.response.data.refreshToken
          /\ last.op = "logout" => (CredsAbsent /\ user = Null))
  /\ [][/\ BagCardinality(calls') >= BagCardinality(calls) - 1
        /\ \A rec \in BagToSet(calls) :
             CopiesIn(rec, calls') < CopiesIn(rec, calls) =>
               /\ CopiesIn(rec, calls') = CopiesIn(rec, calls) - 1
               /\ last'.op = rec.op /\ last'.out # "none"]_vars

\* C19 witness: a login has resolved after an adminLogin that was in flight
\* with it and had succeeded; the session is the login's.
C19_Witness ==
  /\ last.op = "login" /\ Succeeded(last) /\ last.net = 1
  /\ last.prior.op = "adminLogin" /\ last.prior.status = "ok" /\ last.prior.net = 1
  /\ user = last.response.data.user /\ user.r = "client"
  /\ storage["accessToken"] = last.response.data.accessToken

C21_AuthenticationRequired ==
  /\ [](\A rec \in BagToSet(calls) :
          (rec.op \in ProductOps /\ rec.item > 0) =>
            /\ rec.token.t = "jwt"
            /\ rec.hdr = Val("bearer", rec.token.n, rec.token.e, "jwt"))
  /\ [][(last'.op \in ProductOps /\ last'.token = Null) =>
          /\ last'.out = "throw" /\ last'.msg = "Authentication required"
          /\ last'.item = 0
          /\ products' = products
          /\ error' # Null
          /\ loading' = FALSE]_vars

\* C21 witness: deleteProduct has rejected for want of a token (expired, no
\* refresh token) while the list held a product.
C21_Witness ==
  /\ last.op = "deleteProduct" /\ last.token = Null /\ last.refreshed = "false"
  /\ last.out = "throw" /\ last.msg = "Authentication required" /\ last.item = 0
  /\ Len(products) > 0 /\ error = Str("Failed to delete product") /\ ~loading

\* C22: the add-product form never holds more than 8 images, and a selection
\* whose files would bring the total above 8 is refused as a whole: the image
\* list stays as it was.
C22_AtMostEightImages ==
  /\ [](Len(images) <= 8)
  /\ [][(last'.op = "handleImageChange" /\ last'.id + Len(images) > 8) =>
          (images' = images /\ last'.msg = "Too many images")]_vars

\* C22 witness: a selection of 2 files has been refused over a list of 7.
C22_Witness ==
  /\ last.op = "handleImageChange" /\ last.id = 2 /\ last.msg = "Too many images"
  /\ Len(images) = 7

\* C23: whenever no call is in flight, Session.user is non-null only if
\* storage holds both accessToken and user (so after a failed refresh or a
\* failed restore has cleared storage, Session.user is null).
C23_UserImpliesStored ==
  (calls = EmptyBag /\ user # Null) =>
    (storage["accessToken"] # Null /\ storage["user"] # Null)

\* C24: googleLogin writes its credential under the key token, and no step
\* removes that key or changes it, other than a googleLogin writing its own
\* credential there.
C24_TokenKeyStays ==
  /\ []((last.op = "googleLogin" /\ last.out = "return") => storage["token"] = last.body)
  /\ [][/\ storage["token"] # Null => storage'["token"] # Null
        /\ storage'["token"] # storage["token"] =>
             /\ last'.op = "googleLogin" /\ last'.out = "return"
             /\ storage'["token"] = last'.body]_vars

\* C24 witness: a logout has completed after a googleLogin, and the Google
\* credential is still stored under token.
C24_Witness ==
  /\ last.op = "logout" /\ CredsAbsent /\ user = Null
  /\ storage["token"].t = "jwt" /\ storage["token"].n = 7

\* C25: googleLogin leaves the stored refreshToken as it was, and a successful
\* refresh stores the access token of its response and leaves the stored user
\* and Session.user as they were (the Google user, after a googleLogin).
C25_GoogleKeepsRefreshToken ==
  [][/\ last'.op = "googleLogin" => storage'["refreshToken"] = storage["refreshToken"]
     /\ (last'.op \in {"getToken", "checkAuth", "interceptor"} /\ Succeeded(last')) =>
          /\ storage'["accessToken"] = last'.response.data.accessToken
          /\ storage'["user"] = storage["user"]
          /\ user' = user]_vars

\* C25 witness: after a login and a googleLogin, getToken() has refreshed with
\* the login's refresh token; the stored user and Session.user are the Google
\* user, the access token is the server's new one.
C25_Witness ==
  /\ last.op = "getToken" /\ Succeeded(last) /\ last.body.t = "rt"
  /\ storage["accessToken"] = last.response.data.accessToken
  /\ storage["accessToken"].n = issued
  /\ storage["user"] = Val("json", 7, 0, "client")
  /\ user = Val("user", 7, 0, "client")
  /\ storage["token"].n = 7

====
